---- MODULE Spec2Model ----
(***************************************************************************)
(* A model of pkg/egaws/eqaws.go: the bootstrap sequence NewEGAwsClient    *)
(* (config load, optional AssumeRole, GetCallerIdentity, secret-store      *)
(* client), the accessors of EGAwsClient and GetLatestJsonSecretValue.     *)
(*                                                                         *)
(* The AWS SDK and encoding/json are collaborators: their observable       *)
(* behaviour is modelled at the call sites of eqaws.go.  An optional value *)
(* (a Go pointer, a nil-able result) is a set: {} is nil, {x} is present.  *)
(***************************************************************************)
EXTENDS Integers, Sequences, FiniteSets, TLC

VARIABLES
    args,           \* *NewEGAwsClientArgs handed to NewEGAwsClient
    pc,             \* position of the NewEGAwsClient run
    configOpts,     \* local configOpts of NewEGAwsClient
    cfg,            \* local cfg of NewEGAwsClient ({} before it is loaded)
    stsClient,      \* local stsClient of NewEGAwsClient ({} before line 68)
    result,         \* AssumeRole output captured by the closure of line 78
    cache,          \* credentials held by the aws.CredentialsCache of line 78
    ret,            \* what NewEGAwsClient returned: [handle, err]
    trace,          \* collaborator calls issued by the run, in order
    assumeCalls,    \* number of sts AssumeRole calls issued so far
    providerCalls,  \* number of invocations of the closure of lines 78-85
    now,            \* wall clock
    callers         \* per caller: the call on the handle it is in

vars == <<args, pc, configOpts, cfg, stsClient, result, cache, ret, trace,
          assumeCalls, providerCalls, now, callers>>

----------------------------------------------------------------------------
(* Bounds of the model. *)

MaxRetry == 3
MaxTime == 2

Callers == {"c1", "c2"}

----------------------------------------------------------------------------
(* Errors returned by the code (the wrapping message names the stage). *)

NoErr == "nil"
ErrConfig == "failed to load AWS config"
ErrAssume == "failed to assume role"
ErrIdentity == "failed to get caller identity"
ErrGet == "failed to get secret value"
ErrEmpty == "secret found but value is empty"
ErrUnmarshal == "failed to unmarshal byte value"

----------------------------------------------------------------------------
(* Configuration resolution: lines 40-66. *)

Region == "us-east-1"
RoleArn == "arn:aws:iam::1:role/r"
RetryModes == {"", "standard", "adaptive"}
HTTPClients == {{}, {"custom"}}

\* The attempts the SDK makes when no cap is configured.
DefaultMaxAttempts == 3

\* NewEGAwsClientArgs; RetryMaxAttempts is a Go int, so it may be negative.
ArgsSet ==
    [Region : {Region},
     AssumeRoleArn : {"", RoleArn},
     RetryMaxAttempts : (-1)..MaxRetry,
     RetryMode : RetryModes,
     HTTPClient : HTTPClients]

\* A functional option of config.LoadOptions.
Opt(name, n, s) == [opt |-> name, num |-> n, str |-> s]

\* The options, with a cap of 0 or less replaced by an explicit cap of 3.
BuildConfigOptsDefaulting(a) ==
    <<Opt("WithRegion", 0, a.Region)>>
    \o <<Opt("WithRetryMaxAttempts",
             IF a.RetryMaxAttempts > 0 THEN a.RetryMaxAttempts ELSE 3, "")>>
    \o (IF a.RetryMode # ""
        THEN <<Opt("WithRetryMode", 0, a.RetryMode)>>
        ELSE <<>>)
    \o (IF a.HTTPClient # {}
        THEN <<Opt("WithHTTPClient", 0, "custom")>>
        ELSE <<>>)

\* Lines 41-60: the options handed to config.LoadDefaultConfig.
BuildConfigOpts(a) ==
    <<Opt("WithRegion", 0, a.Region)>>
    \o (IF a.RetryMaxAttempts > 0
        THEN <<Opt("WithRetryMaxAttempts", a.RetryMaxAttempts, "")>>
        ELSE <<>>)
    \o (IF a.RetryMode # ""
        THEN <<Opt("WithRetryMode", 0, a.RetryMode)>>
        ELSE <<>>)
    \o (IF a.HTTPClient # {}
        THEN <<Opt("WithHTTPClient", 0, "custom")>>
        ELSE <<>>)

HasOpt(opts, name) == \E i \in 1..Len(opts) : opts[i].opt = name

OptOf(opts, name) == opts[CHOOSE i \in 1..Len(opts) : opts[i].opt = name]

\* Line 62, config.LoadDefaultConfig on success: each option sets its field
\* of aws.Config, a field no option names keeps Go's zero value, and the
\* credential source is the ambient default chain.
LoadDefaultConfig(opts) ==
    [Region |-> IF HasOpt(opts, "WithRegion")
                THEN OptOf(opts, "WithRegion").str ELSE "",
     RetryMaxAttempts |-> IF HasOpt(opts, "WithRetryMaxAttempts")
                          THEN OptOf(opts, "WithRetryMaxAttempts").num ELSE 0,
     RetryMode |-> IF HasOpt(opts, "WithRetryMode")
                   THEN OptOf(opts, "WithRetryMode").str ELSE "",
     HTTPClient |-> IF HasOpt(opts, "WithHTTPClient")
                    THEN OptOf(opts, "WithHTTPClient").str ELSE "default",
     Credentials |-> "ambient"]

\* The retry cap and mode a client built from c works with: the configured
\* ones, or the SDK's own where aws.Config holds the zero value.
EffectiveCap(c) ==
    IF c.RetryMaxAttempts > 0 THEN c.RetryMaxAttempts ELSE DefaultMaxAttempts

EffectiveMode(c) == IF c.RetryMode # "" THEN c.RetryMode ELSE "standard"

\* sts.NewFromConfig / secretsmanager.NewFromConfig: a client holds a copy
\* of the configuration it was built from.
NewFromConfig(svc, c) == [svc |-> svc, cfg |-> c]

----------------------------------------------------------------------------
(* Credentials: lines 70-88. *)

\* What the ambient default chain resolves to: long-lived keys, no session.
AmbientCreds ==
    [AccessKeyID |-> <<"AKIA", 0>>, SecretAccessKey |-> <<"secret", 0>>,
     SessionToken |-> <<>>, Expires |-> 0, CanExpire |-> FALSE]

\* The output of the n-th successful sts AssumeRole exchange, expiring at exp.
AssumeRoleOutput(n, exp) ==
    [AccessKeyId |-> <<"ASIA", n>>, SecretAccessKey |-> <<"secret", n>>,
     SessionToken |-> <<"token", n>>, Expiration |-> exp]

\* The closure, but running a role-assumption exchange of its own each time
\* it is invoked.
ProviderFuncExchanging(res) ==
    [creds |-> [AccessKeyID |-> res.AccessKeyId,
                SecretAccessKey |-> res.SecretAccessKey,
                SessionToken |-> res.SessionToken,
                Expires |-> res.Expiration,
                CanExpire |-> FALSE],
     exchanges |-> 1]

\* The closure, but leaving the session token out of the set it builds.
ProviderFuncNoToken(res) ==
    [creds |-> [AccessKeyID |-> res.AccessKeyId,
                SecretAccessKey |-> res.SecretAccessKey,
                SessionToken |-> <<>>,
                Expires |-> res.Expiration,
                CanExpire |-> FALSE],
     exchanges |-> 0]

\* The closure, but marking the set it builds as one that expires.
ProviderFuncCanExpire(res) ==
    [creds |-> [AccessKeyID |-> res.AccessKeyId,
                SecretAccessKey |-> res.SecretAccessKey,
                SessionToken |-> res.SessionToken,
                Expires |-> res.Expiration,
                CanExpire |-> TRUE],
     exchanges |-> 0]

\* Lines 78-85: the closure wrapped by aws.CredentialsProviderFunc.  It copies
\* the four fields of the captured result (CanExpire keeps Go's zero value,
\* false) and issues no call of its own: exchanges is the number of AssumeRole
\* calls one invocation makes.
ProviderFunc(res) ==
    [creds |-> [AccessKeyID |-> res.AccessKeyId,
                SecretAccessKey |-> res.SecretAccessKey,
                SessionToken |-> res.SessionToken,
                Expires |-> res.Expiration,
                CanExpire |-> FALSE],
     exchanges |-> 0]

\* aws.Credentials.Expired: only credentials marked CanExpire ever expire.
Expired(c, t) == c.CanExpire /\ ~(c.Expires > t)

\* aws.CredentialsCache.Retrieve around the closure: the cached set while
\* there is one that is not Expired, else the closure's, which is then cached.
CacheRetrieve(cached, res, t) ==
    IF cached # {} /\ \A c \in cached : ~Expired(c, t)
    THEN [creds |-> CHOOSE c \in cached : TRUE, cache |-> cached,
          invoked |-> 0, exchanges |-> 0]
    ELSE LET r == ProviderFunc(CHOOSE x \in res : TRUE)
         IN [creds |-> r.creds, cache |-> {r.creds},
             invoked |-> 1, exchanges |-> r.exchanges]

\* A credential request through the provider a configuration names.
Retrieve(provider, cached, res, t) ==
    IF provider = "ambient"
    THEN [creds |-> AmbientCreds, cache |-> cached,
          invoked |-> 0, exchanges |-> 0]
    ELSE CacheRetrieve(cached, res, t)

\* The services reject a session credential at or after its expiration.
Stale(c, t) == c.SessionToken # <<>> /\ c.Expires <= t

----------------------------------------------------------------------------
(* NewEGAwsClient: lines 39-103. *)

Call(op, ok, with) == [op |-> op, ok |-> ok, with |-> with]

NoReturn == [returned |-> FALSE, handle |-> {}, err |-> NoErr]

Return(h, e) == [returned |-> TRUE, handle |-> h, err |-> e]

\* Lines 41-68: build the options, load the configuration, build the
\* identity client.
Load ==
    /\ pc = "load"
    /\ \E ok \in BOOLEAN :
        /\ configOpts' = BuildConfigOpts(args)
        /\ trace' = Append(trace, Call("LoadDefaultConfig", ok, "none"))
        /\ IF ok
           THEN /\ cfg' = {LoadDefaultConfig(configOpts')}
                /\ stsClient' = {NewFromConfig("sts", LoadDefaultConfig(configOpts'))}
                /\ pc' = "provision"
                /\ ret' = ret
           ELSE /\ pc' = "done"
                /\ ret' = Return({}, ErrConfig)
                /\ UNCHANGED <<cfg, stsClient>>
    /\ UNCHANGED <<args, result, cache, assumeCalls, providerCalls, now, callers>>

\* Line 87 left out: the client of line 68 stays in use.
KeepStsClient(old, c) == old

\* Line 87: the identity client is built again from the updated configuration.
RebuildStsClient(old, c) == NewFromConfig("sts", c)

\* Provision, but going on to verify after a rejected AssumeRole.
ProvisionContinuing ==
    /\ pc = "provision"
    /\ LET c == CHOOSE x \in cfg : TRUE
           client == CHOOSE x \in stsClient : TRUE
       IN
       IF args.AssumeRoleArn = ""
       THEN /\ pc' = "verify"
            /\ UNCHANGED <<cfg, stsClient, result, ret, trace, assumeCalls>>
       ELSE \E ok \in BOOLEAN, exp \in (now + 1)..(MaxTime + 1) :
            /\ assumeCalls' = assumeCalls + 1
            /\ trace' = Append(trace, Call("AssumeRole", ok, client.cfg.Credentials))
            /\ pc' = "verify"
            /\ ret' = ret
            /\ IF ok
               THEN /\ result' = {AssumeRoleOutput(assumeCalls', exp)}
                    /\ cfg' = {[c EXCEPT !.Credentials = "assumed"]}
                    /\ stsClient' = {NewFromConfig("sts", [c EXCEPT !.Credentials = "assumed"])}
               ELSE UNCHANGED <<cfg, stsClient, result>>
    /\ UNCHANGED <<args, configOpts, cache, providerCalls, now, callers>>

\* Lines 70-88: with a role, one AssumeRole call through the client built so
\* far; on success the configuration's credentials become the caching
\* provider and the identity client is rebuilt.
Provision ==
    /\ pc = "provision"
    /\ LET c == CHOOSE x \in cfg : TRUE
           client == CHOOSE x \in stsClient : TRUE
       IN
       IF args.AssumeRoleArn = ""
       THEN /\ pc' = "verify"
            /\ UNCHANGED <<cfg, stsClient, result, ret, trace, assumeCalls>>
       ELSE \E ok \in BOOLEAN, exp \in (now + 1)..(MaxTime + 1) :
            /\ assumeCalls' = assumeCalls + 1
            /\ trace' = Append(trace, Call("AssumeRole", ok, client.cfg.Credentials))
            /\ IF ok
               THEN /\ result' = {AssumeRoleOutput(assumeCalls', exp)}
                    /\ cfg' = {[c EXCEPT !.Credentials = "assumed"]}
                    /\ stsClient' = {RebuildStsClient(client, [c EXCEPT !.Credentials = "assumed"])}
                    /\ pc' = "verify"
                    /\ ret' = ret
               ELSE /\ pc' = "done"
                    /\ ret' = Return({}, ErrAssume)
                    /\ UNCHANGED <<cfg, stsClient, result>>
    /\ UNCHANGED <<args, configOpts, cache, providerCalls, now, callers>>

\* Verify, but going on to build the handle whatever the call answered.
VerifyIgnoringError ==
    /\ pc = "verify"
    /\ LET client == CHOOSE x \in stsClient : TRUE
           r == Retrieve(client.cfg.Credentials, cache, result, now)
       IN \E ok \in BOOLEAN :
            /\ ok => ~Stale(r.creds, now)
            /\ cache' = r.cache
            /\ providerCalls' = providerCalls + r.invoked
            /\ assumeCalls' = assumeCalls + r.exchanges
            /\ trace' = Append(trace, Call("GetCallerIdentity", ok, client.cfg.Credentials))
            /\ pc' = "build" /\ ret' = ret
    /\ UNCHANGED <<args, configOpts, cfg, stsClient, result, now, callers>>

\* Lines 90-94: GetCallerIdentity through the current identity client, which
\* signs the request with the credentials its configuration provides.
Verify ==
    /\ pc = "verify"
    /\ LET client == CHOOSE x \in stsClient : TRUE
           r == Retrieve(client.cfg.Credentials, cache, result, now)
       IN \E ok \in BOOLEAN :
            /\ ok => ~Stale(r.creds, now)
            /\ cache' = r.cache
            /\ providerCalls' = providerCalls + r.invoked
            /\ assumeCalls' = assumeCalls + r.exchanges
            /\ trace' = Append(trace, Call("GetCallerIdentity", ok, client.cfg.Credentials))
            /\ IF ok
               THEN pc' = "build" /\ ret' = ret
               ELSE pc' = "done" /\ ret' = Return({}, ErrIdentity)
    /\ UNCHANGED <<args, configOpts, cfg, stsClient, result, now, callers>>

\* Lines 96-102: build the secret-store client and return the handle.
Build ==
    /\ pc = "build"
    /\ LET c == CHOOSE x \in cfg : TRUE
           client == CHOOSE x \in stsClient : TRUE
       IN /\ trace' = Append(trace, Call("NewSecretsClient", TRUE, c.Credentials))
          /\ ret' = Return({[cfg |-> c, stsClient |-> client,
                             secretsClient |-> NewFromConfig("secretsmanager", c)]},
                           NoErr)
    /\ pc' = "done"
    /\ UNCHANGED <<args, configOpts, cfg, stsClient, result, cache,
                   assumeCalls, providerCalls, now, callers>>

----------------------------------------------------------------------------
(* encoding/json, as far as line 152 uses it.  A document is a sequence of
   lexemes: "{", "}", ":", ",", a string ("k", "j", "s") or a number. *)

Strings == {"k", "j", "s"}
Numbers == {"1", "2"}
Scalars == Strings \cup Numbers

NumVal(tok) == IF tok = "1" THEN 1 ELSE 2

\* The destination of the callers: struct{ K int `json:"k"`; J int `json:"j"` }.
Fields == {"k", "j"}

RECURSIVE ValidMembers(_)
\* member ("," member)* "}" with member = string ":" scalar
ValidMembers(t) ==
    /\ Len(t) >= 4
    /\ t[1] \in Strings
    /\ t[2] = ":"
    /\ t[3] \in Scalars
    /\ \/ t[4] = "}" /\ Len(t) = 4
       \/ t[4] = "," /\ ValidMembers(SubSeq(t, 5, Len(t)))

\* json's checkValid, which Unmarshal runs before it writes anything.
Valid(b) ==
    /\ Len(b) >= 1
    /\ \/ b[1] \in Scalars /\ Len(b) = 1
       \/ b = <<"{", "}">>
       \/ b[1] = "{" /\ ValidMembers(Tail(b))

RECURSIVE DecodeMembers(_, _, _)
\* The members in order: a number goes into the field its key names, a
\* string for an int field is a type error (the field is skipped, decoding
\* goes on), an unknown key is ignored.  mismatch: a type error was saved.
DecodeMembers(t, d, mismatch) ==
    IF Len(t) < 4 THEN [dest |-> d, mismatch |-> mismatch]
    ELSE LET key == t[1]
             val == t[3]
             d2 == IF key \in Fields /\ val \in Numbers
                   THEN [d EXCEPT ![key] = NumVal(val)] ELSE d
             m2 == mismatch \/ (key \in Fields /\ val \notin Numbers)
         IN DecodeMembers(SubSeq(t, 5, Len(t)), d2, m2)

\* json.Unmarshal(b, &d): [dest, err] with err "" (nil), "syntax" or "type".
Unmarshal(b, d) ==
    IF ~Valid(b) THEN [dest |-> d, err |-> "syntax"]
    ELSE IF b[1] # "{" THEN [dest |-> d, err |-> "type"]
    ELSE LET r == DecodeMembers(Tail(b), d, FALSE)
         IN [dest |-> r.dest, err |-> IF r.mismatch THEN "type" ELSE ""]

----------------------------------------------------------------------------
(* GetLatestJsonSecretValue: lines 135-158. *)

\* The payloads the store may hold in either field.
Docs ==
    { <<>>,
      <<"{", "}">>,
      <<"{", "k", ":", "1", "}">>,
      <<"{", "k", ":", "2", ",", "j", ":", "1", "}">>,
      <<"{", "k", ":", "s", ",", "j", ":", "2", "}">>,
      <<"{", "k", ":", "1">>,
      <<"1">> }

\* What GetSecretValue answers: an error, or an output whose SecretString and
\* SecretBinary are each nil or present.
Answers ==
    [failed : {TRUE}, SecretString : {{}}, SecretBinary : {{}}]
    \cup [failed : {FALSE},
          SecretString : {{}} \cup {{d} : d \in Docs},
          SecretBinary : {{}} \cup {{d} : d \in Docs}]

\* The destinations a caller hands in.
Dests == {[k |-> 9, j |-> 9]}

\* The selection, but taking an empty text field for an absent one.
SelectBytesNonEmpty(output) ==
    IF output.SecretString # {} /\ output.SecretString # {<<>>}
    THEN output.SecretString
    ELSE IF output.SecretBinary # {} THEN output.SecretBinary
    ELSE {}

\* Lines 143-150: the bytes to decode, {} when neither field is present.
SelectBytes(output) ==
    IF output.SecretString # {} THEN output.SecretString
    ELSE IF output.SecretBinary # {} THEN output.SecretBinary
    ELSE {}

\* The decode, but trying the binary field after the text field failed.
DecodeIntoRetrying(bytes, output, d) ==
    LET r == Unmarshal(bytes, d)
    IN IF r.err # "" /\ output.SecretString = {bytes} /\ output.SecretBinary # {}
       THEN LET b2 == CHOOSE b \in output.SecretBinary : TRUE
                r2 == Unmarshal(b2, d)
            IN [err |-> IF r2.err # "" THEN ErrUnmarshal ELSE NoErr,
                dest |-> r2.dest, tried |-> <<bytes, b2>>]
       ELSE [err |-> IF r.err # "" THEN ErrUnmarshal ELSE NoErr,
             dest |-> r.dest, tried |-> <<bytes>>]

\* Lines 152-157: one decode of the selected bytes.  tried lists the
\* payloads handed to json.Unmarshal.
DecodeInto(bytes, output, d) ==
    LET r == Unmarshal(bytes, d)
    IN [err |-> IF r.err # "" THEN ErrUnmarshal ELSE NoErr,
        dest |-> r.dest, tried |-> <<bytes>>]

\* Lines 135-158, given the store's answer and the caller's destination.
GetLatestJsonSecretValue(answer, d) ==
    IF answer.failed THEN [err |-> ErrGet, dest |-> d, tried |-> <<>>]
    ELSE IF SelectBytes(answer) = {}
    THEN [err |-> ErrEmpty, dest |-> d, tried |-> <<>>]
    ELSE DecodeInto(CHOOSE b \in SelectBytes(answer) : TRUE, answer, d)

----------------------------------------------------------------------------
(* The methods of EGAwsClient, called by concurrent callers: lines 105-158. *)

Idle ==
    [pc |-> "idle", op |-> "none", creds |-> {}, at |-> 0, dest0 |-> {},
     answer |-> {}, dest |-> {}, err |-> NoErr, tried |-> <<>>, got |-> {}]

HasHandle == ret.handle # {}

Handle == CHOOSE h \in ret.handle : TRUE

\* A request leaves through client: the SDK signs it with the credentials
\* the client's configuration provides at that moment.
Send(c, op, client, d) ==
    LET r == Retrieve(client.cfg.Credentials, cache, result, now)
    IN /\ callers' = [callers EXCEPT ![c] =
                        [Idle EXCEPT !.pc = "sent", !.op = op,
                                     !.creds = {r.creds}, !.at = now,
                                     !.dest0 = d, !.dest = d]]
       /\ cache' = r.cache
       /\ providerCalls' = providerCalls + r.invoked
       /\ assumeCalls' = assumeCalls + r.exchanges

\* Lines 106-109, the request: GetCallerIdentity through c.stsClient.
IdentStart(c) ==
    /\ HasHandle /\ callers[c].pc = "idle"
    /\ Send(c, "GetCallerIdentity", Handle.stsClient, {})
    /\ UNCHANGED <<args, pc, configOpts, cfg, stsClient, result, ret, trace, now>>

\* Lines 106-109, the answer: returned as the identity service gave it.
IdentReturn(c) ==
    /\ callers[c].pc = "sent" /\ callers[c].op = "GetCallerIdentity"
    /\ \E ok \in BOOLEAN :
        /\ ok => \A k \in callers[c].creds : ~Stale(k, now)
        /\ callers' = [callers EXCEPT ![c].pc = "done",
                          ![c].err = IF ok THEN NoErr ELSE "sts error",
                          ![c].got = IF ok THEN {"identity"} ELSE {}]
    /\ UNCHANGED <<args, pc, configOpts, cfg, stsClient, result, cache, ret,
                   trace, assumeCalls, providerCalls, now>>

\* Lines 112-114.
GetConfig(c) ==
    /\ HasHandle /\ callers[c].pc = "idle"
    /\ callers' = [callers EXCEPT ![c] =
                      [Idle EXCEPT !.pc = "done", !.op = "GetConfig",
                                   !.got = {Handle.cfg}]]
    /\ UNCHANGED <<args, pc, configOpts, cfg, stsClient, result, cache, ret,
                   trace, assumeCalls, providerCalls, now>>

\* Lines 117-119.
GetSTSClient(c) ==
    /\ HasHandle /\ callers[c].pc = "idle"
    /\ callers' = [callers EXCEPT ![c] =
                      [Idle EXCEPT !.pc = "done", !.op = "GetSTSClient",
                                   !.got = {Handle.stsClient}]]
    /\ UNCHANGED <<args, pc, configOpts, cfg, stsClient, result, cache, ret,
                   trace, assumeCalls, providerCalls, now>>

\* Lines 122-124.
GetSecretsClient(c) ==
    /\ HasHandle /\ callers[c].pc = "idle"
    /\ callers' = [callers EXCEPT ![c] =
                      [Idle EXCEPT !.pc = "done", !.op = "GetSecretsClient",
                                   !.got = {Handle.secretsClient}]]
    /\ UNCHANGED <<args, pc, configOpts, cfg, stsClient, result, cache, ret,
                   trace, assumeCalls, providerCalls, now>>

\* A credential request made directly on the provider of the handle's
\* configuration (line 78, or the ambient chain).
ReadCredentials(c) ==
    /\ HasHandle /\ callers[c].pc = "idle"
    /\ LET r == Retrieve(Handle.cfg.Credentials, cache, result, now)
       IN /\ callers' = [callers EXCEPT ![c] =
                            [Idle EXCEPT !.pc = "done", !.op = "Retrieve",
                                         !.creds = {r.creds}, !.at = now]]
          /\ cache' = r.cache
          /\ providerCalls' = providerCalls + r.invoked
          /\ assumeCalls' = assumeCalls + r.exchanges
    /\ UNCHANGED <<args, pc, configOpts, cfg, stsClient, result, ret, trace, now>>

\* Lines 136-138: GetSecretValue through c.secretsClient, with the caller's
\* destination d.
FetchStart(c) ==
    /\ HasHandle /\ callers[c].pc = "idle"
    /\ \E d \in Dests :
         Send(c, "GetLatestJsonSecretValue", Handle.secretsClient, {d})
    /\ UNCHANGED <<args, pc, configOpts, cfg, stsClient, result, ret, trace, now>>

\* The answer's handling, but dropping the handle when the fetch failed.
FetchReturnInvalidating(c) ==
    /\ callers[c].pc = "sent" /\ callers[c].op = "GetLatestJsonSecretValue"
    /\ \E answer \in Answers :
        /\ ~answer.failed => \A k \in callers[c].creds : ~Stale(k, now)
        /\ LET r == GetLatestJsonSecretValue(answer,
                        CHOOSE d \in callers[c].dest0 : TRUE)
           IN /\ callers' = [callers EXCEPT ![c].pc = "done",
                                ![c].answer = {answer}, ![c].dest = {r.dest},
                                ![c].err = r.err, ![c].tried = r.tried]
              /\ ret' = IF r.err # NoErr THEN Return({}, r.err) ELSE ret
    /\ UNCHANGED <<args, pc, configOpts, cfg, stsClient, result, cache,
                   trace, assumeCalls, providerCalls, now>>

\* Lines 139-157: the store's answer arrives, is selected from and decoded.
FetchReturn(c) ==
    /\ callers[c].pc = "sent" /\ callers[c].op = "GetLatestJsonSecretValue"
    /\ \E answer \in Answers :
        /\ ~answer.failed => \A k \in callers[c].creds : ~Stale(k, now)
        /\ LET r == GetLatestJsonSecretValue(answer,
                        CHOOSE d \in callers[c].dest0 : TRUE)
           IN callers' = [callers EXCEPT ![c].pc = "done",
                             ![c].answer = {answer}, ![c].dest = {r.dest},
                             ![c].err = r.err, ![c].tried = r.tried]
    /\ UNCHANGED <<args, pc, configOpts, cfg, stsClient, result, cache, ret,
                   trace, assumeCalls, providerCalls, now>>

\* The caller drops what it was returned and is free for its next call.
Ack(c) ==
    /\ callers[c].pc = "done"
    /\ callers' = [callers EXCEPT ![c] = Idle]
    /\ UNCHANGED <<args, pc, configOpts, cfg, stsClient, result, cache, ret,
                   trace, assumeCalls, providerCalls, now>>

\* Time passes.
Tick ==
    /\ now < MaxTime
    /\ now' = now + 1
    /\ UNCHANGED <<args, pc, configOpts, cfg, stsClient, result, cache, ret,
                   trace, assumeCalls, providerCalls, callers>>

----------------------------------------------------------------------------
(* Specifications. *)

InitWith(a) ==
    /\ args = a
    /\ pc = "load"
    /\ configOpts = <<>>
    /\ cfg = {}
    /\ stsClient = {}
    /\ result = {}
    /\ cache = {}
    /\ ret = NoReturn
    /\ trace = <<>>
    /\ assumeCalls = 0
    /\ providerCalls = 0
    /\ now = 0
    /\ callers = [c \in Callers |-> Idle]

\* The arguments that leave retries and transport to the SDK.
ArgsDefault ==
    {a \in ArgsSet :
        a.RetryMaxAttempts = 0 /\ a.RetryMode = "" /\ a.HTTPClient = {}}

\* The handle and its callers, under the default arguments with and
\* without a role.
Init == \E a \in ArgsDefault : InitWith(a)

\* The bootstrap alone, under every combination of arguments.
InitBoot == \E a \in ArgsSet : InitWith(a)

Bootstrap == Load \/ Provision \/ Verify \/ Build

Next ==
    \/ Bootstrap
    \/ Tick
    \/ \E c \in Callers :
        \/ IdentStart(c) \/ IdentReturn(c)
        \/ GetConfig(c) \/ GetSTSClient(c) \/ GetSecretsClient(c)
        \/ ReadCredentials(c)
        \/ FetchStart(c) \/ FetchReturn(c)
        \/ Ack(c)

Spec == Init /\ [][Next]_vars

NextBoot == Bootstrap \/ Tick

SpecBoot == InitBoot /\ [][NextBoot]_vars

----------------------------------------------------------------------------
(* Vocabulary of the properties. *)

Ops(t) == [i \in 1..Len(t) |-> t[i].op]

FailedAt(t) == {i \in 1..Len(t) : ~t[i].ok}

\* The error NewEGAwsClient wraps a failure of each stage in.
StageErr(op) ==
    CASE op = "LoadDefaultConfig" -> ErrConfig
      [] op = "AssumeRole" -> ErrAssume
      [] op = "GetCallerIdentity" -> ErrIdentity
      [] OTHER -> NoErr

\* The collaborator calls of a complete run, in the order of the stages.
StageOrder(a) ==
    <<"LoadDefaultConfig">>
    \o (IF a.AssumeRoleArn # "" THEN <<"AssumeRole">> ELSE <<>>)
    \o <<"GetCallerIdentity", "NewSecretsClient">>

IsPrefix(s, t) == Len(s) <= Len(t) /\ s = SubSeq(t, 1, Len(s))

WithRole == args.AssumeRoleArn # ""

\* The Credential Set the one exchange returned.
Exchanged == CHOOSE x \in result : TRUE

FetchDone(c) ==
    callers[c].pc = "done" /\ callers[c].op = "GetLatestJsonSecretValue"

AnswerOf(c) == CHOOSE a \in callers[c].answer : TRUE

DestOf(c) == CHOOSE d \in callers[c].dest : TRUE

Dest0Of(c) == CHOOSE d \in callers[c].dest0 : TRUE

----------------------------------------------------------------------------
(* C1: NewEGAwsClient returns a handle exactly when every stage it ran
   succeeded (config load, AssumeRole when a role is given,
   GetCallerIdentity); otherwise it returns no handle and the error of the
   first failing stage.  A handle and an error never come together. *)
C1_BootstrapResult ==
    ret.returned =>
        /\ (ret.handle # {}) <=> (FailedAt(trace) = {})
        /\ (ret.handle # {}) <=> (ret.err = NoErr)
        /\ ret.handle # {} => Ops(trace) = StageOrder(args)
        /\ \A i \in FailedAt(trace) :
              (\A j \in FailedAt(trace) : i <= j) =>
                  ret.err = StageErr(trace[i].op)

\* GetCallerIdentity failed after AssumeRole succeeded: no handle.
C1_Witness ==
    /\ ret.returned /\ ret.handle = {} /\ ret.err = ErrIdentity
    /\ Len(trace) = 3 /\ trace[2].op = "AssumeRole" /\ trace[2].ok

(* C2: the stages of one run happen in the order config load, AssumeRole,
   GetCallerIdentity, secret-store client; none starts before the previous
   one succeeded, GetCallerIdentity is never skipped, and no collaborator is
   called after a stage failed. *)
C2_StageOrder ==
    /\ IsPrefix(Ops(trace), StageOrder(args))
    /\ \A i \in FailedAt(trace) : i = Len(trace) /\ pc = "done"
    /\ pc = "done" /\ FailedAt(trace) = {} => Ops(trace) = StageOrder(args)
    /\ ret.handle # {} =>
          \E i \in 1..Len(trace) :
              trace[i].op = "GetCallerIdentity" /\ trace[i].ok

\* AssumeRole failed and the run ended there.
C2_Witness ==
    /\ pc = "done" /\ Len(trace) = 2
    /\ trace[2].op = "AssumeRole" /\ ~trace[2].ok

(* C9: an explicit retry cap is configured exactly when RetryMaxAttempts > 0
   and then equals it; with 0 no cap option is applied, the configuration
   keeps its cap unset and the SDK's default is in force, so an explicit cap
   equal to the default and no cap stay distinguishable.  A retry mode is
   applied exactly when RetryMode is non-empty. *)
C9_RetryOptions ==
    pc # "load" =>
        /\ HasOpt(configOpts, "WithRetryMaxAttempts") <=> args.RetryMaxAttempts > 0
        /\ HasOpt(configOpts, "WithRetryMaxAttempts") =>
              OptOf(configOpts, "WithRetryMaxAttempts").num = args.RetryMaxAttempts
        /\ HasOpt(configOpts, "WithRetryMode") <=> args.RetryMode # ""
        /\ HasOpt(configOpts, "WithRetryMode") =>
              OptOf(configOpts, "WithRetryMode").str = args.RetryMode
        /\ \A c \in cfg :
              /\ args.RetryMaxAttempts > 0 =>
                    /\ c.RetryMaxAttempts = args.RetryMaxAttempts
                    /\ EffectiveCap(c) = args.RetryMaxAttempts
              /\ args.RetryMaxAttempts <= 0 =>
                    /\ c.RetryMaxAttempts = 0
                    /\ EffectiveCap(c) = DefaultMaxAttempts
              /\ c.RetryMode = args.RetryMode
              /\ args.RetryMode = "" => EffectiveMode(c) = "standard"
              /\ c.Region = args.Region

\* Resolution succeeded for (region, 0, "", nil): nothing but the region is
\* configured.
C9_Witness ==
    /\ cfg # {} /\ Len(configOpts) = 1
    /\ args.RetryMaxAttempts = 0 /\ args.RetryMode = "" /\ args.HTTPClient = {}

(* C10: without a role no AssumeRole call is made and the verification call
   and both clients of the handle use the ambient credentials; with a role
   the AssumeRole call is made with the ambient credentials, and the
   verification call and both clients of the handle use the assumed-role
   provider. *)
C10_CredentialSource ==
    /\ ~WithRole => assumeCalls = 0
    /\ \A i \in 1..Len(trace) :
          /\ trace[i].op = "AssumeRole" => WithRole /\ trace[i].with = "ambient"
          /\ trace[i].op \in {"GetCallerIdentity", "NewSecretsClient"} =>
                trace[i].with = IF WithRole THEN "assumed" ELSE "ambient"
    /\ \A h \in ret.handle :
          LET src == IF WithRole THEN "assumed" ELSE "ambient"
          IN /\ h.cfg.Credentials = src
             /\ h.stsClient.cfg.Credentials = src
             /\ h.secretsClient.cfg.Credentials = src
    /\ \A c \in Callers : \A k \in callers[c].creds :
          IF WithRole
          THEN k.AccessKeyID = Exchanged.AccessKeyId
          ELSE k = AmbientCreds

\* A handle built with a role, and a caller's GetCallerIdentity in flight.
C10_Witness ==
    /\ WithRole /\ HasHandle
    /\ \E c \in Callers :
          callers[c].pc = "sent" /\ callers[c].op = "GetCallerIdentity"

\* The payload GetSecretValue's output offers for decoding: the text field
\* when it is present, else the binary field.
Offered(a) == IF a.SecretString # {} THEN a.SecretString ELSE a.SecretBinary

(* C3: the outcome of GetLatestJsonSecretValue follows the store's answer in
   this order: a failed GetSecretValue gives "failed to get secret value";
   else a present text field (an empty string included) is what is decoded,
   whatever the binary field holds; else a present binary field is decoded;
   else the result is "secret found but value is empty", an error of its
   own.  Text {"k":1} with no binary decodes without error to k = 1. *)
C3_FetchOutcome ==
    \A c \in Callers : FetchDone(c) =>
        LET a == AnswerOf(c)
        IN /\ a.failed => callers[c].err = ErrGet /\ callers[c].tried = <<>>
           /\ ~a.failed /\ a.SecretString # {} =>
                 /\ callers[c].tried = <<CHOOSE b \in a.SecretString : TRUE>>
                 /\ callers[c].err \in {NoErr, ErrUnmarshal}
           /\ ~a.failed /\ a.SecretString = {} /\ a.SecretBinary # {} =>
                 /\ callers[c].tried = <<CHOOSE b \in a.SecretBinary : TRUE>>
                 /\ callers[c].err \in {NoErr, ErrUnmarshal}
           /\ ~a.failed /\ a.SecretString = {} /\ a.SecretBinary = {} =>
                 callers[c].err = ErrEmpty /\ callers[c].tried = <<>>
           /\ callers[c].err = ErrEmpty =>
                 ~a.failed /\ a.SecretString = {} /\ a.SecretBinary = {}
           /\ callers[c].err \in {ErrGet, ErrEmpty} => DestOf(c) = Dest0Of(c)
           /\ ~a.failed /\ a.SecretString = {<<"{", "k", ":", "1", "}">>} =>
                 /\ callers[c].err = NoErr
                 /\ DestOf(c) = [Dest0Of(c) EXCEPT !["k"] = 1]

\* An empty text field beside a decodable binary field: the text is decoded.
C3_Witness ==
    \E c \in Callers :
        /\ FetchDone(c)
        /\ AnswerOf(c).SecretString = {<<>>}
        /\ AnswerOf(c).SecretBinary = {<<"{", "k", ":", "1", "}">>}
        /\ callers[c].err = ErrUnmarshal

(* C4, as claimed: when the offered bytes do not decode into the
   destination, the result is the decode error, the destination is as it
   was before the call, and no second decode is attempted. *)
C4_Original ==
    \A c \in Callers :
        FetchDone(c) /\ ~AnswerOf(c).failed /\ Offered(AnswerOf(c)) # {} =>
            LET b == CHOOSE x \in Offered(AnswerOf(c)) : TRUE
            IN Unmarshal(b, Dest0Of(c)).err # "" =>
                 /\ callers[c].err = ErrUnmarshal
                 /\ Len(callers[c].tried) = 1
                 /\ DestOf(c) = Dest0Of(c)

(* C4, amended: when the offered bytes do not decode into the destination,
   the result is the decode error and no second decode is attempted; the
   destination is as it was before the call when the bytes are not
   syntactically valid JSON (or, for the struct destination, not a JSON
   object), while a JSON object with a member of the wrong type may leave
   its well-typed members written: {"k":"s","j":2} sets j to 2. *)
C4_DecodeFailure ==
    \A c \in Callers :
        FetchDone(c) /\ ~AnswerOf(c).failed /\ Offered(AnswerOf(c)) # {} =>
            LET b == CHOOSE x \in Offered(AnswerOf(c)) : TRUE
            IN Unmarshal(b, Dest0Of(c)).err # "" =>
                 /\ callers[c].err = ErrUnmarshal
                 /\ callers[c].tried = <<b>>
                 /\ (~Valid(b) \/ b[1] # "{") => DestOf(c) = Dest0Of(c)
                 /\ b = <<"{", "k", ":", "s", ",", "j", ":", "2", "}">> =>
                       DestOf(c) = [Dest0Of(c) EXCEPT !["j"] = 2]

\* Truncated text beside a decodable binary field: the decode error, the
\* destination untouched.
C4_Witness ==
    \E c \in Callers :
        /\ FetchDone(c)
        /\ AnswerOf(c).SecretString = {<<"{", "k", ":", "1">>}
        /\ AnswerOf(c).SecretBinary = {<<"{", "k", ":", "1", "}">>}
        /\ callers[c].err = ErrUnmarshal
        /\ DestOf(c) = Dest0Of(c)

\* The Credential Set k holds the values of the one exchange.
FromExchange(k) ==
    /\ k.AccessKeyID = Exchanged.AccessKeyId
    /\ k.SecretAccessKey = Exchanged.SecretAccessKey
    /\ k.SessionToken = Exchanged.SessionToken
    /\ k.Expires = Exchanged.Expiration

(* C5: with a role, AssumeRole is performed once, during bootstrap, and never
   again while the handle lives: after any credential reads,
   GetCallerIdentity calls and secret fetches, those after the expiration
   included, the count is 1 and the provider returns the set of that one
   exchange, stale or not. *)
C5_SingleExchange ==
    WithRole =>
        /\ assumeCalls <= 1
        /\ assumeCalls = Len(SelectSeq(trace, LAMBDA e : e.op = "AssumeRole"))
        /\ HasHandle =>
              /\ assumeCalls = 1
              /\ \A c \in Callers : \A k \in callers[c].creds :
                    /\ FromExchange(k)
                    /\ callers[c].at >= Exchanged.Expiration => Stale(k, callers[c].at)

\* A secret fetch sent after the expiration carries the stale set.
C5_Witness ==
    /\ WithRole /\ HasHandle
    /\ \E c \in Callers :
          /\ callers[c].op = "GetLatestJsonSecretValue"
          /\ callers[c].creds # {}
          /\ callers[c].at >= Exchanged.Expiration

(* C6: every read of the cached provider made before the expiration, by any
   caller and under any interleaving, returns a complete Credential Set
   whose access key, secret key, session token and expiration are those of
   the one exchange; any two such reads agree. *)
C6_ConsistentReads ==
    WithRole =>
        \A c \in Callers : \A k \in callers[c].creds :
            callers[c].at < Exchanged.Expiration =>
                /\ k.AccessKeyID # <<>> /\ k.SecretAccessKey # <<>>
                /\ k.SessionToken # <<>>
                /\ k.SessionToken[2] = k.AccessKeyID[2]
                /\ k.SecretAccessKey[2] = k.AccessKeyID[2]
                /\ k.Expires = Exchanged.Expiration
                /\ k.AccessKeyID = Exchanged.AccessKeyId
                /\ \A d \in Callers : \A k2 \in callers[d].creds :
                      callers[d].at < Exchanged.Expiration => k2 = k

\* Two callers hold sets read at different times before the expiration.
C6_Witness ==
    /\ WithRole
    /\ callers["c1"].creds # {} /\ callers["c2"].creds # {}
    /\ callers["c1"].at < callers["c2"].at
    /\ callers["c2"].at < Exchanged.Expiration

(* C7, as claimed: once the expiration is reached the cache is invalidated
   and the next credential request runs a new exchange, so a request made
   after expiry returns a fresh, unexpired Credential Set. *)
C7_Original ==
    WithRole =>
        \A c \in Callers : \A k \in callers[c].creds :
            k.Expires > callers[c].at

(* C7, amended: the Credential Set is produced lazily, by the first
   credential request (the verification call of the bootstrap), and cached;
   reaching the expiration neither invalidates the cache nor runs a new
   exchange, so a request made after expiry returns the cached, expired
   set. *)
C7_NoRefresh ==
    WithRole =>
        /\ providerCalls <= 1
        /\ cache = {} <=> providerCalls = 0
        /\ pc \in {"load", "provision", "verify"} => providerCalls = 0
        /\ HasHandle => providerCalls = 1
        /\ \A k \in cache : FromExchange(k)
        /\ \A c \in Callers : \A k \in callers[c].creds :
              callers[c].at >= Exchanged.Expiration =>
                  k \in cache /\ k.Expires <= callers[c].at

\* A credential request made after the expiration.
C7_Witness ==
    /\ WithRole /\ cache # {}
    /\ \E c \in Callers :
          /\ callers[c].op = "Retrieve"
          /\ callers[c].creds # {}
          /\ callers[c].at >= Exchanged.Expiration

(* C8: a constructed handle is read-only: no call on it, succeeding or
   failing, changes its configuration or clients; a step of one caller
   leaves every other caller's call as it was, and a failed secret fetch
   changes nothing but the record of the caller that made it. *)
C8_HandleReadOnly ==
    [][HasHandle =>
        /\ ret' = ret
        /\ cfg' = cfg /\ stsClient' = stsClient /\ result' = result
        /\ \A c \in Callers :
              callers'[c] # callers[c] =>
                  /\ \A d \in Callers \ {c} : callers'[d] = callers[d]
                  /\ (callers[c].pc = "sent" /\ callers'[c].err # NoErr) =>
                        /\ cache' = cache
                        /\ assumeCalls' = assumeCalls
                        /\ providerCalls' = providerCalls
     ]_vars

\* One caller's fetch failed to decode and the other's succeeded.
C8_Witness ==
    /\ HasHandle
    /\ FetchDone("c1") /\ callers["c1"].err = ErrUnmarshal
    /\ FetchDone("c2") /\ callers["c2"].err = NoErr
    /\ DestOf("c2") # Dest0Of("c2")

====
